---- MODULE Spec2Model ----
(***************************************************************************)
(* Model of the ticket lifecycle of Dave.py: the four module-level tables  *)
(* (ticket_timers, ticket_messages, muted_tickets, ticket_types), the      *)
(* coroutines that touch them (TicketSelect.callback, on_message,          *)
(* ClaimButton.callback, CloseButton.callback, start_timer) and the chat   *)
(* platform state they act on (channels, the ticket message's embed, the   *)
(* audit log channel).                                                     *)
(*                                                                         *)
(* Every coroutine invocation is one entry of procs.  A step of the model  *)
(* is the code a coroutine runs between two awaits: asyncio never          *)
(* suspends a coroutine anywhere else.  The effect of an awaited platform  *)
(* call (create / send / edit / history / delete) takes place in the step  *)
(* that resumes the coroutine after it.  An await with no access to shared *)
(* state on one side of it (an acknowledgement at the start or the end of  *)
(* a callback, bot.process_commands at the start of on_message) is folded  *)
(* into the neighbouring step: the event is taken to arrive when that      *)
(* await returns, which may be after the channel was deleted.              *)
(***************************************************************************)
EXTENDS Integers, Sequences, FiniteSets

\* ------------------------------------------------------------- bounds
\* Total number of events handled (select choices, messages, button clicks);
\* each may start one timer task on top.
MaxHandlers == 4
\* The same, for the specification of the whole system (Spec), whose events
\* range over both channels and every input.
MaxEvents == 3
\* Number of asyncio.sleep(60) rounds of one timer; stands for 259200 / 60.
SleepIterations == 2

\* ------------------------------------------------------ input domains
\* Channel ids the platform can hand out.
Channels == {1, 2}
NoChannel == 0
NoTask == 0
\* Options of the select (General stands for the else branch; Incident for
\* the three types that get their own style).
TicketTypeOptions == {"General", "Incident"}
\* Members holding STAFF_ROLE_ID, and one member who does not.
Staff == {"s1", "s2"}
Members == Staff \cup {"u"}
\* Message authors: a human or a bot account.
Authors == {"human", "bot"}
\* Outcomes of the text generation call: the model's text or the fallback.
AiTexts == {"ai", "fallback"}

VARIABLES
    chan,             \* platform: channel -> "none" | "open" | "deleted"
    embed_fields,     \* platform: channel -> "Claimed By" fields of the ticket message
    log_channel,      \* platform: guild.get_channel(TICKET_LOG_CHANNEL_ID) finds it
    ticket_timers,    \* dict channel.id -> task (index into procs, NoTask = no key)
    ticket_messages,  \* dict channel.id -> message (TRUE = key present)
    muted_tickets,    \* set of channel ids
    ticket_types,     \* dict channel.id -> type ("" = no key)
    since_reset,      \* sleep rounds elapsed since reset_timer(channel), capped
    procs             \* every coroutine invocation, in order of creation

vars == <<chan, embed_fields, log_channel, ticket_timers, ticket_messages,
          muted_tickets, ticket_types, since_reset, procs>>

tables == <<ticket_timers, ticket_messages, muted_tickets, ticket_types>>

\* ------------------------------------------------------- coroutines
\* One coroutine invocation.  Fields not used by a kind keep their default.
\*   kind   "select" | "msg" | "claim" | "close" | "timer"
\*   pc     the await it is suspended at, or how it ended
\*   user   claim: the clicking member; msg: the author
\*   ttype  select: the chosen option
\*   embed  claim: the local embed (Claimed By fields) it is about to send
\*   left   timer: total_seconds / 60
\*   read   close, timer: channel.history was read
\*   text   close, timer: the summary text; msg: the reply text
\*   posted close, timer: the summary was sent to the log channel
\*   del    close, timer: "" | "ok" | "notfound", the channel.delete() issued
\*   late   msg: the handler started after a claim on the channel succeeded
Proc(kind, ch, pc) ==
    [kind |-> kind, ch |-> ch, pc |-> pc, user |-> "", ttype |-> "",
     embed |-> <<>>, left |-> 0, read |-> FALSE,
     text |-> "", posted |-> FALSE, del |-> "", late |-> FALSE]

Ids == 1..Len(procs)

\* pcs at which a timer task is still pending (not done): cancel() acts on these.
SleepPcs == {"sleep"}
FirePcs == {"history", "log_send", "delete"}
LivePcs == SleepPcs \cup FirePcs

\* Event handlers started so far, in a sequence of coroutines.
Handlers(ps) == Cardinality({i \in 1..Len(ps) : ps[i].kind # "timer"})

\* Room for one more event handler.
Room == Handlers(procs) < MaxHandlers

\* --------------------------------------------------------- TIMER SYSTEM
\* A reset_timer that forgets to cancel the task it replaces.
CancelTaskForgotten(ps, k) == ps

\* task.cancel(): a pending task gets CancelledError at the await it is
\* suspended at, which the bare except of start_timer swallows; a finished
\* task is left alone.
CancelTask(ps, k) ==
    IF ps[k].pc \in LivePcs
    THEN [ps EXCEPT ![k] = [@ EXCEPT !.pc = "cancelled", !.left = 0]]
    ELSE ps

\* A countdown that starts one round short.
TotalRoundsShort == SleepIterations - 1

\* total_seconds = 259200, counted down by 60 per sleep.
TotalRounds == SleepIterations

\* A start_timer without the check of lines 264-266.
StartTimerUnchecked(c, tm) ==
    [Proc("timer", c, "sleep") EXCEPT !.left = TotalRounds]

\* start_timer up to its first await: return at once without a stored
\* ticket message, else enter the sleep loop.  tm is ticket_messages.
StartTimer(c, tm) ==
    IF tm[c]
    THEN [Proc("timer", c, "sleep") EXCEPT !.left = TotalRounds]
    ELSE Proc("timer", c, "returned")

\* reset_timer(channel): cancel the registered task, create and register a
\* new one.  Yields the new procs and ticket_timers.
ResetTimer(ps, tt, tm, c) ==
    LET ps1 == IF tt[c] # NoTask THEN CancelTask(ps, tt[c]) ELSE ps
    IN  [procs  |-> Append(ps1, StartTimer(c, tm)),
         timers |-> [tt EXCEPT ![c] = Len(ps1) + 1]]

\* A log_ticket_summary that returns before reading anything.
SummaryEntrySkips == "skipped"

\* log_ticket_summary up to its first await: without a log channel it
\* returns at once, else it goes on to read the history.
SummaryEntry == IF log_channel THEN "history" ELSE "skipped"

\* One asyncio.sleep(60) round passes: every sleeping timer wakes, counts
\* total_seconds down and, while it is still positive, sleeps again.
Tick ==
    /\ \/ \E i \in Ids : procs[i].kind = "timer" /\ procs[i].pc = "sleep" /\ procs[i].left > 0
       \/ \E c \in Channels : ticket_timers[c] # NoTask /\ since_reset[c] < SleepIterations
    /\ procs' = [i \in Ids |->
                    IF procs[i].kind = "timer" /\ procs[i].pc = "sleep" /\ procs[i].left > 0
                    THEN [procs[i] EXCEPT !.left = @ - 1] ELSE procs[i]]
    /\ since_reset' = [c \in Channels |->
                    IF ticket_timers[c] # NoTask /\ since_reset[c] < SleepIterations
                    THEN since_reset[c] + 1 ELSE since_reset[c]]
    /\ UNCHANGED <<chan, embed_fields, log_channel, tables>>

\* A start_timer that ends when its loop does, without the close action.
TimerWakeStops(i) ==
    /\ procs[i].kind = "timer" /\ procs[i].pc = "sleep" /\ procs[i].left = 0
    /\ procs' = [procs EXCEPT ![i].pc = "returned"]
    /\ UNCHANGED <<chan, embed_fields, log_channel, tables, since_reset>>

\* start_timer leaves its loop (total_seconds reached 0) and enters
\* log_ticket_summary, or goes straight on to channel.delete when that
\* returns at once.
TimerWake(i) ==
    /\ procs[i].kind = "timer" /\ procs[i].pc = "sleep" /\ procs[i].left = 0
    /\ procs' = [procs EXCEPT ![i].pc = IF SummaryEntry = "history" THEN "history" ELSE "delete"]
    /\ UNCHANGED <<chan, embed_fields, log_channel, tables, since_reset>>

\* A failure in one timer task that takes every other timer task down.
TimerCallFailsForAll(i) ==
    /\ procs[i].kind = "timer" /\ procs[i].pc \in FirePcs
    /\ procs' = [j \in Ids |->
                    IF j = i THEN [procs[j] EXCEPT !.pc = "failed"]
                    ELSE IF procs[j].kind = "timer" /\ procs[j].pc \in LivePcs
                    THEN [procs[j] EXCEPT !.pc = "cancelled", !.left = 0]
                    ELSE procs[j]]
    /\ UNCHANGED <<chan, embed_fields, log_channel, tables, since_reset>>

\* An awaited call of a timer's close action (the history read, the post to
\* the log channel, the deletion) raises for a reason of its own (HTTP
\* error, missing permission): the bare except of start_timer swallows
\* it and the task ends.
TimerCallFails(i) ==
    /\ procs[i].kind = "timer" /\ procs[i].pc \in FirePcs
    /\ procs' = [procs EXCEPT ![i].pc = "failed"]
    /\ UNCHANGED <<chan, embed_fields, log_channel, tables, since_reset>>

\* ------------------------------------------------------ SUMMARY SYSTEM
\* Lines 217-222 of CloseButton.callback, run without suspension once
\* log_ticket_summary has returned: cancel and forget the timer, unmute.
CloseCleanup(ps, i) ==
    LET c == ps[i].ch
        ps1 == IF ticket_timers[c] # NoTask THEN CancelTask(ps, ticket_timers[c]) ELSE ps
    IN  /\ procs' = [ps1 EXCEPT ![i].pc = "delete"]
        /\ ticket_timers' = [ticket_timers EXCEPT ![c] = NoTask]
        /\ muted_tickets' = muted_tickets \ {c}
        /\ since_reset' = [since_reset EXCEPT ![c] = 0]

\* A generate_summary without its try/except: the AI's failure leaves
\* log_ticket_summary as an exception.
SummaryHistoryPropagates(i, t) ==
    /\ procs[i].kind \in {"close", "timer"} /\ procs[i].pc = "history"
    /\ IF chan[procs[i].ch] = "open" /\ t = "ai"
       THEN procs' = [procs EXCEPT ![i] = [@ EXCEPT !.read = TRUE, !.text = t, !.pc = "log_send"]]
       ELSE procs' = [procs EXCEPT ![i] = [@ EXCEPT !.read = (chan[procs[i].ch] = "open"),
                                                    !.pc = "failed"]]
    /\ UNCHANGED <<chan, embed_fields, log_channel, tables, since_reset>>

\* get_ticket_messages + generate_summary: the history read returns (or
\* raises NotFound on a deleted channel), the summary text is produced
\* (t: the AI's text, or the fallback when the AI call fails).
SummaryHistory(i, t) ==
    /\ procs[i].kind \in {"close", "timer"} /\ procs[i].pc = "history"
    /\ IF chan[procs[i].ch] = "open"
       THEN procs' = [procs EXCEPT ![i] = [@ EXCEPT !.read = TRUE, !.text = t, !.pc = "log_send"]]
       ELSE procs' = [procs EXCEPT ![i].pc = "failed"]
    /\ UNCHANGED <<chan, embed_fields, log_channel, tables, since_reset>>

\* log_channel.send(embed=embed) returns; the caller goes on to its delete.
SummarySend(i) ==
    /\ procs[i].kind \in {"close", "timer"} /\ procs[i].pc = "log_send"
    /\ IF procs[i].kind = "close"
       THEN CloseCleanup([procs EXCEPT ![i].posted = TRUE], i)
       ELSE /\ procs' = [procs EXCEPT ![i] = [@ EXCEPT !.posted = TRUE, !.pc = "delete"]]
            /\ UNCHANGED <<ticket_timers, muted_tickets, since_reset>>
    /\ UNCHANGED <<chan, embed_fields, log_channel, ticket_messages, ticket_types>>

\* channel.delete() returns: the channel is gone, or NotFound is raised when
\* it already was (unhandled in the button callback, swallowed in the task).
ChannelDelete(i) ==
    /\ procs[i].kind \in {"close", "timer"} /\ procs[i].pc = "delete"
    /\ IF chan[procs[i].ch] = "open"
       THEN /\ chan' = [chan EXCEPT ![procs[i].ch] = "deleted"]
            /\ procs' = [procs EXCEPT ![i] = [@ EXCEPT !.del = "ok", !.pc = "done"]]
       ELSE /\ chan' = chan
            /\ procs' = [procs EXCEPT ![i] = [@ EXCEPT !.del = "notfound", !.pc = "failed"]]
    /\ UNCHANGED <<embed_fields, log_channel, tables, since_reset>>

\* ------------------------------------------------------- CLOSE BUTTON
\* A click on Close Ticket whose acknowledgement has returned: the
\* callback enters log_ticket_summary.
CloseArrive(c) ==
    /\ chan[c] # "none" /\ ticket_messages[c] /\ Room
    /\ IF SummaryEntry = "history"
       THEN /\ procs' = Append(procs, Proc("close", c, "history"))
            /\ UNCHANGED <<ticket_timers, muted_tickets, since_reset>>
       ELSE CloseCleanup(Append(procs, Proc("close", c, "skipped")), Len(procs) + 1)
    /\ UNCHANGED <<chan, embed_fields, log_channel, ticket_messages, ticket_types>>

\* ------------------------------------------------------- TICKET SELECT
\* The id the platform gives the next channel.
NewChannel == CHOOSE c \in Channels : chan[c] = "none" /\ \A d \in Channels : chan[d] = "none" => c <= d

\* A text channel appears in the ticket category without the select: staff
\* create it by hand.  No table gets an entry for it, and on_message
\* (lines 399-403) takes it for a ticket channel.
PlainChannel ==
    /\ \E c \in Channels : chan[c] = "none"
    /\ chan' = [chan EXCEPT ![NewChannel] = "open"]
    /\ UNCHANGED <<embed_fields, log_channel, tables, since_reset, procs>>

\* A choice in the select: the callback starts, defers, and awaits
\* guild.create_text_channel.
SelectArrive(ty) ==
    /\ Room
    /\ procs' = Append(procs, [Proc("select", NoChannel, "create_channel") EXCEPT !.ttype = ty])
    /\ UNCHANGED <<chan, embed_fields, log_channel, tables, since_reset>>

\* create_text_channel returned the channel: record its type, await the
\* sending of the ticket message.
SelectCreateChannel(i) ==
    /\ procs[i].kind = "select" /\ procs[i].pc = "create_channel"
    /\ \E c \in Channels : chan[c] = "none"
    /\ chan' = [chan EXCEPT ![NewChannel] = "open"]
    /\ ticket_types' = [ticket_types EXCEPT ![NewChannel] = procs[i].ttype]
    /\ procs' = [procs EXCEPT ![i] = [@ EXCEPT !.ch = NewChannel, !.pc = "send_ticket"]]
    /\ UNCHANGED <<embed_fields, log_channel, ticket_timers, ticket_messages,
                   muted_tickets, since_reset>>

\* A callback that records the ticket's type before the channel is there.
SelectCreateFailsRecorded(i) ==
    /\ procs[i].kind = "select" /\ procs[i].pc = "create_channel"
    /\ procs' = [procs EXCEPT ![i].pc = "create_failed"]
    /\ ticket_types' = IF \E c \in Channels : chan[c] = "none"
                       THEN [ticket_types EXCEPT ![NewChannel] = procs[i].ttype]
                       ELSE ticket_types
    /\ UNCHANGED <<chan, embed_fields, log_channel, ticket_timers, ticket_messages,
                   muted_tickets, since_reset>>

\* create_text_channel raised: the exception leaves the callback, nothing
\* after line 328 runs.
SelectCreateFails(i) ==
    /\ procs[i].kind = "select" /\ procs[i].pc = "create_channel"
    /\ procs' = [procs EXCEPT ![i].pc = "create_failed"]
    /\ UNCHANGED <<chan, embed_fields, log_channel, tables, since_reset>>

\* ticket_channel.send returned the ticket message: store it, arm the
\* timer.  The follow-up and the panel edit touch no state.
SelectSendTicket(i) ==
    /\ procs[i].kind = "select" /\ procs[i].pc = "send_ticket"
    /\ LET c  == procs[i].ch
           tm == [ticket_messages EXCEPT ![c] = TRUE]
           r  == ResetTimer([procs EXCEPT ![i].pc = "done"], ticket_timers, tm, c)
       IN  /\ ticket_messages' = tm
           /\ procs' = r.procs
           /\ ticket_timers' = r.timers
           /\ embed_fields' = [embed_fields EXCEPT ![c] = <<>>]
           /\ since_reset' = [since_reset EXCEPT ![c] = 0]
    /\ UNCHANGED <<chan, log_channel, muted_tickets, ticket_types>>

\* -------------------------------------------------------- CLAIM BUTTON
\* Some claim on the channel got past the staff check (line 243 ran).
ClaimSucceeded(c) ==
    \E j \in Ids : procs[j].kind = "claim" /\ procs[j].ch = c /\ procs[j].pc # "rejected"

\* A claim callback without the check of line 237.
IsStaffUnchecked(u) == TRUE

\* staff_role in interaction.user.roles
IsStaff(u) == u \in Staff

\* A click on Claim Ticket, up to the first await: reject a non-staff
\* member, else mute the ticket and add a Claimed By field to the embed
\* the interaction carries.
ClaimArrive(c, u) ==
    /\ chan[c] # "none" /\ ticket_messages[c] /\ Room
    /\ IF ~IsStaff(u)
       THEN /\ procs' = Append(procs, [Proc("claim", c, "rejected") EXCEPT !.user = u])
            /\ UNCHANGED muted_tickets
       ELSE /\ muted_tickets' = muted_tickets \cup {c}
            /\ procs' = Append(procs, [Proc("claim", c, "edit") EXCEPT
                                          !.user = u, !.embed = Append(embed_fields[c], u)])
    /\ UNCHANGED <<chan, embed_fields, log_channel, ticket_timers, ticket_messages,
                   ticket_types, since_reset>>

\* interaction.message.edit(embed=embed) returns, or raises NotFound.
ClaimEdit(i) ==
    /\ procs[i].kind = "claim" /\ procs[i].pc = "edit"
    /\ IF chan[procs[i].ch] = "open"
       THEN /\ embed_fields' = [embed_fields EXCEPT ![procs[i].ch] = procs[i].embed]
            /\ procs' = [procs EXCEPT ![i].pc = "claimed"]
       ELSE /\ embed_fields' = embed_fields
            /\ procs' = [procs EXCEPT ![i].pc = "failed"]
    /\ UNCHANGED <<chan, log_channel, tables, since_reset>>

\* ------------------------------------------------------------- EVENTS
\* An on_message without the check of line 396.
IsBotUnchecked(a) == FALSE

\* message.author.bot
IsBot(a) == a = "bot"

\* An on_message without the check of line 405.
IsMutedUnchecked(c) == FALSE

\* message.channel.id in muted_tickets
IsMuted(c) == c \in muted_tickets

\* An on_message whose ask_dave has no try/except: the timer is reset, then
\* the AI's failure leaves the handler as an exception and nothing is sent.
MsgArrivePropagates(c, a, t) ==
    /\ chan[c] # "none" /\ Room
    /\ LET p == [Proc("msg", c, "start") EXCEPT !.user = a, !.late = ClaimSucceeded(c)] IN
       IF IsBot(a)
       THEN /\ procs' = Append(procs, [p EXCEPT !.pc = "ignored"])
            /\ UNCHANGED <<ticket_timers, since_reset>>
       ELSE IF IsMuted(c)
       THEN /\ procs' = Append(procs, [p EXCEPT !.pc = "muted"])
            /\ UNCHANGED <<ticket_timers, since_reset>>
       ELSE LET q == IF t = "ai" THEN [p EXCEPT !.text = t, !.pc = "send"]
                                 ELSE [p EXCEPT !.pc = "failed"]
                r == ResetTimer(Append(procs, q), ticket_timers, ticket_messages, c)
            IN  /\ procs' = r.procs
                /\ ticket_timers' = r.timers
                /\ since_reset' = [since_reset EXCEPT ![c] = 0]
    /\ UNCHANGED <<chan, embed_fields, log_channel, ticket_messages, muted_tickets, ticket_types>>

\* A message in a ticket-category channel whose bot.process_commands has
\* returned; on_message from line 396 to its await of channel.send: ignore
\* bots and muted tickets, else reset the timer and ask for a reply (t:
\* what ask_dave returns, the AI's text or the fallback).
MsgArrive(c, a, t) ==
    /\ chan[c] # "none" /\ Room
    /\ LET p == [Proc("msg", c, "start") EXCEPT !.user = a, !.late = ClaimSucceeded(c)] IN
       IF IsBot(a)
       THEN /\ procs' = Append(procs, [p EXCEPT !.pc = "ignored"])
            /\ UNCHANGED <<ticket_timers, since_reset>>
       ELSE IF IsMuted(c)
       THEN /\ procs' = Append(procs, [p EXCEPT !.pc = "muted"])
            /\ UNCHANGED <<ticket_timers, since_reset>>
       ELSE LET r == ResetTimer(Append(procs, [p EXCEPT !.text = t, !.pc = "send"]),
                                ticket_timers, ticket_messages, c)
            IN  /\ procs' = r.procs
                /\ ticket_timers' = r.timers
                /\ since_reset' = [since_reset EXCEPT ![c] = 0]
    /\ UNCHANGED <<chan, embed_fields, log_channel, ticket_messages, muted_tickets, ticket_types>>

\* message.channel.send(reply) returns, or raises NotFound.
MsgSend(i) ==
    /\ procs[i].kind = "msg" /\ procs[i].pc = "send"
    /\ procs' = [procs EXCEPT ![i].pc = IF chan[procs[i].ch] = "open" THEN "replied" ELSE "failed"]
    /\ UNCHANGED <<chan, embed_fields, log_channel, tables, since_reset>>

\* ------------------------------------------------------ specification
Init ==
    /\ chan = [c \in Channels |-> "none"]
    /\ embed_fields = [c \in Channels |-> <<>>]
    /\ log_channel \in BOOLEAN
    /\ ticket_timers = [c \in Channels |-> NoTask]
    /\ ticket_messages = [c \in Channels |-> FALSE]
    /\ muted_tickets = {}
    /\ ticket_types = [c \in Channels |-> ""]
    /\ since_reset = [c \in Channels |-> 0]
    /\ procs = <<>>

Next ==
    \/ \E ty \in TicketTypeOptions : SelectArrive(ty)
    \/ \E i \in Ids : SelectCreateChannel(i)
    \/ \E i \in Ids : SelectCreateFails(i)
    \/ \E i \in Ids : SelectSendTicket(i)
    \/ \E c \in Channels, a \in Authors, t \in AiTexts : MsgArrive(c, a, t)
    \/ \E i \in Ids : MsgSend(i)
    \/ \E c \in Channels, u \in Members : ClaimArrive(c, u)
    \/ \E i \in Ids : ClaimEdit(i)
    \/ \E c \in Channels : CloseArrive(c)
    \/ \E i \in Ids, t \in AiTexts : SummaryHistory(i, t)
    \/ \E i \in Ids : SummarySend(i)
    \/ \E i \in Ids : ChannelDelete(i)
    \/ \E i \in Ids : TimerWake(i)
    \/ \E i \in Ids : TimerCallFails(i)
    \/ PlainChannel
    \/ Tick

\* The whole system: any event on any channel, up to MaxEvents events.
Spec == Init /\ [][Next /\ Handlers(procs') <= MaxEvents]_vars

\* One ticket from creation to deletion: every event on it except those the
\* code ignores (bot messages, clicks of non-staff members) and failures of
\* the creation and of the AI.
NextTicket ==
    \/ \E ty \in TicketTypeOptions : Len(procs) = 0 /\ SelectArrive(ty)
    \/ \E i \in Ids : SelectCreateChannel(i)
    \/ \E i \in Ids : SelectSendTicket(i)
    \/ \E c \in Channels : MsgArrive(c, "human", "ai")
    \/ \E i \in Ids : MsgSend(i)
    \/ \E c \in Channels, u \in Staff : ClaimArrive(c, u)
    \/ \E i \in Ids : ClaimEdit(i)
    \/ \E c \in Channels : CloseArrive(c)
    \/ \E i \in Ids : SummaryHistory(i, "ai")
    \/ \E i \in Ids : SummarySend(i)
    \/ \E i \in Ids : ChannelDelete(i)
    \/ \E i \in Ids : TimerWake(i)
    \/ Tick

SpecTicket == Init /\ [][NextTicket]_vars

\* The same with the audit log channel in place.
InitLogged == Init /\ log_channel = TRUE

SpecLogged == InitLogged /\ [][NextTicket]_vars

\* Ticket creation with its failure, on both channel ids, with the messages
\* and claims that may follow; no timer elapses.
NextCreate ==
    \/ \E ty \in TicketTypeOptions : SelectArrive(ty)
    \/ \E i \in Ids : SelectCreateChannel(i)
    \/ \E i \in Ids : SelectCreateFails(i)
    \/ \E i \in Ids : SelectSendTicket(i)
    \/ \E c \in Channels : MsgArrive(c, "human", "ai")
    \/ \E i \in Ids : MsgSend(i)
    \/ \E c \in Channels, u \in Staff : ClaimArrive(c, u)
    \/ \E i \in Ids : ClaimEdit(i)

SpecCreate == Init /\ [][NextCreate]_vars

\* One Incident ticket with the audit log channel in place, its messages
\* and both close paths, the AI failing or not when the summary is generated.
NextSummary ==
    \/ Len(procs) = 0 /\ SelectArrive("Incident")
    \/ \E i \in Ids : SelectCreateChannel(i)
    \/ \E i \in Ids : SelectSendTicket(i)
    \/ \E c \in Channels : MsgArrive(c, "human", "ai")
    \/ \E i \in Ids : MsgSend(i)
    \/ \E c \in Channels : CloseArrive(c)
    \/ \E i \in Ids, t \in AiTexts : SummaryHistory(i, t)
    \/ \E i \in Ids : SummarySend(i)
    \/ \E i \in Ids : ChannelDelete(i)
    \/ \E i \in Ids : TimerWake(i)
    \/ Tick

SpecSummary == InitLogged /\ [][NextSummary]_vars

\* One ticket left alone after its creation: staff may claim it, nobody
\* writes in it or closes it.  Time passes and every awaited call of the
\* timer task returns (asyncio.sleep, the history read with the summary
\* generation, the post to the log channel, the deletion).
NextIdle ==
    \/ \E ty \in TicketTypeOptions : Len(procs) = 0 /\ SelectArrive(ty)
    \/ \E i \in Ids : SelectCreateChannel(i)
    \/ \E i \in Ids : SelectSendTicket(i)
    \/ \E c \in Channels, u \in Staff : ClaimArrive(c, u)
    \/ \E i \in Ids : ClaimEdit(i)
    \/ \E i \in Ids, t \in AiTexts : SummaryHistory(i, t)
    \/ \E i \in Ids : SummarySend(i)
    \/ \E i \in Ids : ChannelDelete(i)
    \/ \E i \in Ids : TimerWake(i)
    \/ Tick

SpecIdle ==
    /\ Init /\ [][NextIdle]_vars
    /\ WF_vars(Tick)
    /\ WF_vars(\E i \in Ids : TimerWake(i))
    /\ WF_vars(\E i \in Ids, t \in AiTexts : SummaryHistory(i, t))
    /\ WF_vars(\E i \in Ids : SummarySend(i))
    /\ WF_vars(\E i \in Ids : ChannelDelete(i))

\* One Incident ticket from creation to deletion, the Claim button open to
\* every member, staff or not.
NextClaim ==
    \/ Len(procs) = 0 /\ SelectArrive("Incident")
    \/ \E i \in Ids : SelectCreateChannel(i)
    \/ \E i \in Ids : SelectSendTicket(i)
    \/ \E c \in Channels : MsgArrive(c, "human", "ai")
    \/ \E i \in Ids : MsgSend(i)
    \/ \E c \in Channels, u \in Members : ClaimArrive(c, u)
    \/ \E i \in Ids : ClaimEdit(i)
    \/ \E c \in Channels : CloseArrive(c)
    \/ \E i \in Ids : SummaryHistory(i, "ai")
    \/ \E i \in Ids : SummarySend(i)
    \/ \E i \in Ids : ChannelDelete(i)
    \/ \E i \in Ids : TimerWake(i)
    \/ Tick

SpecClaim == Init /\ [][NextClaim]_vars

\* One Incident ticket from creation to deletion, with messages of humans
\* and of bot accounts (the assistant's own replies among them).
NextBot ==
    \/ Len(procs) = 0 /\ SelectArrive("Incident")
    \/ \E i \in Ids : SelectCreateChannel(i)
    \/ \E i \in Ids : SelectSendTicket(i)
    \/ \E c \in Channels, a \in Authors : MsgArrive(c, a, "ai")
    \/ \E i \in Ids : MsgSend(i)
    \/ \E c \in Channels : CloseArrive(c)
    \/ \E i \in Ids : SummaryHistory(i, "ai")
    \/ \E i \in Ids : SummarySend(i)
    \/ \E i \in Ids : ChannelDelete(i)
    \/ \E i \in Ids : TimerWake(i)
    \/ Tick

SpecBot == Init /\ [][NextBot]_vars

\* One unclaimed Incident ticket from creation to deletion: messages of
\* humans, the AI answering or failing, and both close paths.
NextReply ==
    \/ Len(procs) = 0 /\ SelectArrive("Incident")
    \/ \E i \in Ids : SelectCreateChannel(i)
    \/ \E i \in Ids : SelectSendTicket(i)
    \/ \E c \in Channels, t \in AiTexts : MsgArrive(c, "human", t)
    \/ \E i \in Ids : MsgSend(i)
    \/ \E c \in Channels : CloseArrive(c)
    \/ \E i \in Ids : SummaryHistory(i, "ai")
    \/ \E i \in Ids : SummarySend(i)
    \/ \E i \in Ids : ChannelDelete(i)
    \/ \E i \in Ids : TimerWake(i)
    \/ Tick

SpecReply == Init /\ [][NextReply]_vars

\* Tickets on both channels, created at different times and left to their
\* timers, whose awaited calls may raise.  Time passes and every awaited
\* call of a timer task comes back, with its result or with an exception.
NextTimers ==
    \/ SelectArrive("Incident")
    \/ \E i \in Ids : SelectCreateChannel(i)
    \/ \E i \in Ids : SelectSendTicket(i)
    \/ \E i \in Ids, t \in AiTexts : SummaryHistory(i, t)
    \/ \E i \in Ids : SummarySend(i)
    \/ \E i \in Ids : ChannelDelete(i)
    \/ \E i \in Ids : TimerWake(i)
    \/ \E i \in Ids : TimerCallFails(i)
    \/ Tick

SpecTimers ==
    /\ Init /\ [][NextTimers]_vars
    /\ WF_vars(Tick)
    /\ WF_vars(\E i \in Ids : TimerWake(i))
    /\ WF_vars(\E i \in Ids, t \in AiTexts : SummaryHistory(i, t))
    /\ WF_vars(\E i \in Ids : SummarySend(i))
    /\ WF_vars(\E i \in Ids : ChannelDelete(i))

\* A channel made by hand in the ticket category next to one ticket made
\* through the select, with messages in both and time passing.
NextPlain ==
    \/ PlainChannel
    \/ Len(procs) = 0 /\ SelectArrive("Incident")
    \/ \E i \in Ids : SelectCreateChannel(i)
    \/ \E i \in Ids : SelectSendTicket(i)
    \/ \E c \in Channels : MsgArrive(c, "human", "ai")
    \/ \E i \in Ids : MsgSend(i)
    \/ \E i \in Ids : SummaryHistory(i, "ai")
    \/ \E i \in Ids : SummarySend(i)
    \/ \E i \in Ids : ChannelDelete(i)
    \/ \E i \in Ids : TimerWake(i)
    \/ Tick

SpecPlain == Init /\ [][NextPlain]_vars

\* ------------------------------------------------------------ properties
Timers(c) == {i \in Ids : procs[i].kind = "timer" /\ procs[i].ch = c}
Closes(c) == {i \in Ids : procs[i].kind = "close" /\ procs[i].ch = c}
Claims(c) == {i \in Ids : procs[i].kind = "claim" /\ procs[i].ch = c}

\* The close paths run on channel c: manual closes and timers past their wait.
ClosePaths(c) ==
    Closes(c) \cup {i \in Timers(c) : procs[i].pc \in FirePcs \cup {"done", "failed"}
                                      \/ procs[i].posted \/ procs[i].read}

\* Timer task i leaves its wait in this step and starts its close action.
FireBegins(i) ==
    /\ procs[i].kind = "timer" /\ procs[i].pc = "sleep"
    /\ procs'[i].pc \in {"history", "delete"}

\* Manual close i is past lines 217-222: it removed the ticket's timer and mute entries.
CleanedUp(i) ==
    /\ procs[i].kind = "close"
    /\ procs[i].pc \in {"delete", "done"} \/ procs[i].del # ""

\* Close path i has issued, or is about to issue, channel.delete().
AtDelete(i) ==
    /\ procs[i].kind \in {"close", "timer"}
    /\ procs[i].pc = "delete" \/ procs[i].del # ""

\* C1: over all closes of a ticket (manual clicks and timer fires), at most
\* one summary is posted and at most one channel deletion is issued.
C1_CloseOnce ==
    \A c \in Channels :
        /\ Cardinality({i \in ClosePaths(c) : procs[i].posted}) <= 1
        /\ Cardinality({i \in ClosePaths(c) : procs[i].del # ""}) <= 1

\* C2: the claims accepted on a ticket are all of one staff member, and the
\* ticket message carries at most one Claimed By field.
C2_ClaimExclusive ==
    \A c \in Channels :
        /\ Cardinality({procs[i].user : i \in {j \in Claims(c) : procs[j].pc # "rejected"}}) <= 1
        /\ Len(embed_fields[c]) <= 1

\* C3: every message of a human author in a ticket channel, muted or not,
\* cancels the registered timer and registers a fresh one.
C3_ActivityResets ==
    [][\A c \in Channels :
          (/\ Len(procs') > Len(procs)
           /\ procs'[Len(procs) + 1].kind = "msg"
           /\ procs'[Len(procs) + 1].user = "human"
           /\ procs'[Len(procs) + 1].ch = c)
          => /\ ticket_timers'[c] > Len(procs)
             /\ procs'[ticket_timers'[c]].kind = "timer"
             /\ since_reset'[c] = 0]_vars

\* C4: a message handled after a claim on its ticket succeeded gets no
\* assistant reply, unless a close has by then removed the ticket's entries
\* (the ticket is closed).
C4_MutedNoReply ==
    \A i \in Ids :
        (procs[i].kind = "msg" /\ procs[i].late /\ procs[i].pc \in {"send", "replied", "failed"})
        => \E j \in Closes(procs[i].ch) : CleanedUp(j)

\* A message arrived after the claim and was dropped by the mute check.
C4_Witness ==
    \E i \in Ids : procs[i].kind = "msg" /\ procs[i].late /\ procs[i].pc = "muted"

\* C5: a timer starts its close action only when the full duration has
\* passed since the last reset_timer of its channel, and only if it is the
\* task that reset registered: a superseded arming never fires, so between
\* two resets the close action starts at most once.
C5_LastResetDecides ==
    [][\A i \in Ids :
          FireBegins(i) => /\ since_reset[procs[i].ch] = SleepIterations
                           /\ ticket_timers[procs[i].ch] = i]_vars

\* Three resets of one ticket, and the last arming has fired.
C5_Witness ==
    \E c \in Channels :
        /\ Cardinality(Timers(c)) >= 3
        /\ Cardinality({i \in Timers(c) : procs[i].pc = "cancelled"}) >= 2
        /\ \E i \in Timers(c) : procs[i].pc \in FirePcs \cup {"done"} /\ ticket_timers[c] = i

\* C6: per channel at most one timer task is pending, and it is the one
\* registered in ticket_timers.
C6_OneArmedTimer ==
    \A c \in Channels :
        /\ Cardinality({i \in Timers(c) : procs[i].pc \in LivePcs}) <= 1
        /\ \A i \in Timers(c) : procs[i].pc \in LivePcs => ticket_timers[c] = i

\* A reset replaced a sleeping timer: one cancelled, one pending.
C6_Witness ==
    \E c \in Channels :
        /\ \E i \in Timers(c) : procs[i].pc = "cancelled"
        /\ \E i \in Timers(c) : procs[i].pc = "sleep"

\* C7: a timer never starts its close action on a channel for which a
\* manual close has been started.
C7_FireRechecks ==
    [][\A i \in Ids : FireBegins(i) => Closes(procs[i].ch) = {}]_vars

\* C8: a timer that has started its close action is never cancelled.
C8_NoCancelAfterFire ==
    [][\A i \in Ids :
          (procs[i].kind = "timer" /\ procs[i].pc \in FirePcs)
          => procs'[i].pc # "cancelled"]_vars

\* C9: a channel id the platform has not handed out has no entry in any
\* table and no timer task, a request whose channel creation failed holds
\* no channel, and only requests whose channel was created have a type entry.
C9_CreationAtomic ==
    /\ \A c \in Channels :
          chan[c] = "none" =>
              /\ ticket_types[c] = "" /\ ~ticket_messages[c]
              /\ c \notin muted_tickets /\ ticket_timers[c] = NoTask
              /\ Timers(c) = {}
    /\ \A i \in Ids : procs[i].pc = "create_failed" => procs[i].ch = NoChannel
    /\ Cardinality({c \in Channels : ticket_types[c] # ""})
         = Cardinality({i \in Ids : procs[i].kind = "select"
                                    /\ procs[i].pc \in {"send_ticket", "done"}})

\* One request failed at the channel creation, another got its ticket.
C9_Witness ==
    /\ \E i \in Ids : procs[i].pc = "create_failed"
    /\ \E c \in Channels : ticket_messages[c] /\ ticket_timers[c] # NoTask

\* C10 as stated: on every close path the history is read and the summary
\* produced before channel.delete() is issued.
C10_SummaryBeforeDelete ==
    \A i \in Ids : AtDelete(i) => procs[i].read /\ procs[i].text # ""

\* C10 amended: when the log channel is found, the history is read, the
\* summary produced and posted before channel.delete() is issued; when it is
\* not found, the close reads nothing and goes on to the deletion.
C10_SummaryBeforeDeleteIfLogged ==
    \A i \in Ids :
        AtDelete(i) => IF log_channel
                       THEN procs[i].read /\ procs[i].text # "" /\ procs[i].posted
                       ELSE ~procs[i].read /\ procs[i].text = "" /\ ~procs[i].posted

\* Both close paths read and posted before the deletion: the timer deleted
\* the channel, the manual close found it gone.
C10_Witness ==
    /\ log_channel
    /\ \E i \in Ids : procs[i].kind = "timer" /\ procs[i].read /\ procs[i].del = "ok"
    /\ \E i \in Ids : procs[i].kind = "close" /\ procs[i].read /\ procs[i].del = "notfound"

\* C11: a close path that has read the history holds a summary text, the
\* AI's or the fallback, and goes on as it would with the AI's: the manual
\* close cancels and forgets the timer when the summary is sent, and no
\* close path that was not cancelled ends with the channel still there.
C11_FallbackCloseCompletes ==
    /\ [](\A i \in Ids :
            (procs[i].kind \in {"close", "timer"} /\ procs[i].read) =>
                /\ procs[i].text \in AiTexts
                /\ procs[i].pc \in {"log_send", "delete", "done", "failed", "cancelled"}
                /\ procs[i].pc = "cancelled" => procs[i].kind = "timer"
                /\ procs[i].pc \in {"done", "failed"} =>
                       chan[procs[i].ch] = "deleted" /\ procs[i].del # "")
    /\ [][\A i \in Ids :
            (procs[i].kind = "close" /\ procs[i].pc = "log_send" /\ procs'[i].pc # "log_send")
            => /\ procs'[i].pc = "delete"
               /\ ticket_timers'[procs[i].ch] = NoTask
               /\ \A j \in Timers(procs[i].ch) : procs'[j].pc \notin LivePcs]_vars

\* The AI failed on both paths: a timer fire with the fallback summary
\* deleted the channel, and a manual close with the fallback summary
\* cancelled a sleeping timer.
C11_Witness ==
    /\ \E i \in Ids : /\ procs[i].kind = "timer" /\ procs[i].text = "fallback"
                      /\ procs[i].posted /\ procs[i].del = "ok"
    /\ \E i \in Ids : /\ procs[i].kind = "close" /\ procs[i].text = "fallback"
                      /\ procs[i].posted /\ procs[i].del # ""
    /\ \E i \in Ids : procs[i].kind = "timer" /\ procs[i].pc = "cancelled" /\ ~procs[i].read

\* Channel c has an entry in one of the four tables.
HasEntry(c) ==
    \/ ticket_types[c] # "" \/ ticket_messages[c]
    \/ c \in muted_tickets \/ ticket_timers[c] # NoTask

\* C12: a channel id has an entry in one of the tables exactly while its
\* channel exists; once a close has deleted the channel, no entry remains.
C12_EntriesIffOpen ==
    \A c \in Channels : HasEntry(c) <=> chan[c] = "open"

\* Coroutine i ended with an exception nothing caught: a button callback or
\* on_message has no try/except around its platform calls, while
\* start_timer swallows whatever is raised in it.
Unhandled(i) == procs[i].kind # "timer" /\ procs[i].pc = "failed"

\* C13: when a timer fire and a manual close run on the same ticket, the
\* one that finds the channel already deleted does not end with an
\* unhandled error.
C13_LoserTolerates ==
    \A c \in Channels :
        (\E j \in Timers(c) : procs[j].read \/ procs[j].del # "")
        => \A i \in Closes(c) : ~Unhandled(i)

\* The ticket of channel c is set up: its message is stored, its timer armed.
Created(c) == chan[c] = "open" /\ ticket_messages[c]

\* The timer of channel c has deleted the channel.
TimerDeleted(c) == \E i \in Timers(c) : procs[i].del = "ok"

\* C14 as stated: a ticket left alone after its creation, claimed or not,
\* is eventually deleted by its timer, and a timer never issues the
\* deletion without having posted the summary to the log channel.
C14_IdleClosesWithSummary ==
    /\ \A c \in Channels : Created(c) ~> TimerDeleted(c)
    /\ [](\A i \in Ids : (procs[i].kind = "timer" /\ procs[i].del # "") => procs[i].posted)

\* C14 amended: a ticket left alone after its creation, claimed or not, is
\* eventually deleted by its timer; the timer has posted the summary to
\* the log channel before, if the log channel is found.
C14_IdleCloses ==
    /\ \A c \in Channels : Created(c) ~> TimerDeleted(c)
    /\ [](\A i \in Ids : (procs[i].kind = "timer" /\ procs[i].del # "")
                            => (log_channel <=> procs[i].posted))

\* A claimed ticket was deleted by its timer after the summary was posted.
C14_Witness ==
    \E c \in Channels :
        /\ c \in muted_tickets /\ Len(embed_fields[c]) > 0
        /\ \E i \in Timers(c) : procs[i].del = "ok" /\ procs[i].posted

\* This step starts a handler of the given kind: the coroutine appended
\* first to procs (a timer task it creates comes after it).
Starts(kind) == Len(procs') > Len(procs) /\ procs'[Len(procs) + 1].kind = kind

\* C15: a click on Claim Ticket by a member without the staff role ends
\* with the rejection message and changes nothing else: the four tables,
\* the channel, the ticket message's fields and every other coroutine are
\* as before, and the rejected callback never does anything later.
C15_NonStaffRejected ==
    /\ [][(Starts("claim") /\ procs'[Len(procs) + 1].user \notin Staff)
           => /\ procs'[Len(procs) + 1].pc = "rejected"
              /\ procs' = Append(procs, procs'[Len(procs) + 1])
              /\ UNCHANGED <<chan, embed_fields, log_channel, tables>>]_vars
    /\ [][\A i \in Ids : procs[i].pc = "rejected" => procs'[i] = procs[i]]_vars
    /\ [](\A c \in Channels : \A k \in 1..Len(embed_fields[c]) : embed_fields[c][k] \in Staff)

\* A non-staff member was rejected on a ticket that was unclaimed with its
\* timer sleeping, and on a ticket a staff member had claimed.
C15_Witness ==
    \E i, j \in Ids :
        /\ i < j /\ procs[i].pc = "rejected" /\ procs[j].pc = "rejected"
        /\ \E k \in Ids : i < k /\ k < j /\ procs[k].kind = "claim" /\ procs[k].pc = "claimed"
        /\ \E k \in Ids : k < i /\ procs[k].kind = "timer" /\ procs[k].pc = "sleep"

\* C16: a message of a bot account changes nothing: no table, no timer
\* task, no elapsed time of the running timer, no other coroutine; its
\* handler has returned and never posts a reply.
C16_BotMessageNoOp ==
    /\ [][(Starts("msg") /\ procs'[Len(procs) + 1].user = "bot")
           => /\ procs'[Len(procs) + 1].pc = "ignored"
              /\ procs' = Append(procs, procs'[Len(procs) + 1])
              /\ UNCHANGED <<chan, embed_fields, log_channel, tables, since_reset>>]_vars
    /\ [][\A i \in Ids : procs[i].pc = "ignored" => procs'[i] = procs[i]]_vars
    /\ [](\A i \in Ids : (procs[i].kind = "msg" /\ procs[i].user = "bot")
                           => procs[i].pc = "ignored" /\ procs[i].text = "")

\* After a human's message was answered, a bot message arrived later than
\* the arming of the ticket's last timer, and that timer was not replaced:
\* it deleted the channel.
C16_Witness ==
    \E i \in Ids :
        /\ procs[i].kind = "msg" /\ procs[i].user = "bot"
        /\ \E k \in Ids : /\ k < i /\ procs[k].kind = "timer" /\ procs[k].ch = procs[i].ch
                          /\ procs[k].del = "ok"
        /\ \E k \in Ids : k < i /\ procs[k].kind = "msg" /\ procs[k].pc = "replied"

\* C17: a human's message in an open, unclaimed ticket resets the timer
\* once (the registered task is cancelled, one new task sleeps the full
\* duration and is registered) and leaves one reply to send, the AI's text
\* or the fallback; the reply is sent once, and the sending fails only
\* when a close has deleted the channel in the meantime.
C17_OneResetOneReply ==
    /\ [][\A c \in Channels :
            (/\ Starts("msg") /\ procs'[Len(procs) + 1].ch = c
             /\ procs'[Len(procs) + 1].user = "human"
             /\ Created(c) /\ c \notin muted_tickets)
            => /\ procs'[Len(procs) + 1].pc = "send"
               /\ procs'[Len(procs) + 1].text \in AiTexts
               /\ Len(procs') = Len(procs) + 2
               /\ procs'[Len(procs) + 2] = [Proc("timer", c, "sleep") EXCEPT !.left = TotalRounds]
               /\ ticket_timers'[c] = Len(procs) + 2
               /\ since_reset'[c] = 0
               /\ \A k \in Timers(c) : procs'[k].pc \notin LivePcs]_vars
    /\ [][\A i \in Ids :
            (procs[i].kind = "msg" /\ procs'[i] # procs[i])
            => procs[i].pc = "send" /\ procs'[i].pc \in {"replied", "failed"}]_vars
    /\ [](\A i \in Ids :
            (procs[i].kind = "msg" /\ procs[i].pc = "failed")
            => \E j \in ClosePaths(procs[i].ch) : procs[j].del = "ok")

\* The AI failed on a message in an open ticket whose timer had run for a
\* while: the fallback text was posted and the old timer was cancelled.
C17_Witness ==
    \E i \in Ids :
        /\ procs[i].kind = "msg" /\ procs[i].text = "fallback" /\ procs[i].pc = "replied"
        /\ \E k \in Ids : /\ k < i /\ procs[k].kind = "timer"
                          /\ procs[k].pc = "cancelled"
        /\ procs[i + 1].kind = "timer" /\ procs[i + 1].pc = "sleep"
        /\ ticket_timers[procs[i].ch] = i + 1

\* An awaited call of the timer of channel c raised.
TimerFailed(c) == \E i \in Timers(c) : procs[i].pc = "failed"

\* C18: when a call raises inside one ticket's timer task, the task ends
\* and nothing else changes: every other coroutine, the tables and the
\* channels are as before; and every ticket left to its timer is
\* eventually deleted by it, unless a call of its own timer raised.
C18_TimerFailureContained ==
    /\ [][\A i \in Ids :
            (procs[i].kind = "timer" /\ procs[i].pc \in FirePcs /\ procs'[i].pc = "failed")
            => /\ \A j \in Ids \ {i} : procs'[j] = procs[j]
               /\ Len(procs') = Len(procs)
               /\ UNCHANGED <<chan, embed_fields, log_channel, tables, since_reset>>]_vars
    /\ \A c \in Channels : Created(c) ~> (TimerDeleted(c) \/ TimerFailed(c))

\* The timer of one ticket failed and left its channel in place; the timer
\* of the other ticket deleted its channel.
C18_Witness ==
    \E c, d \in Channels :
        /\ c # d /\ TimerFailed(c) /\ chan[c] = "open"
        /\ TimerDeleted(d) /\ ~TimerFailed(d)

\* C19: once a manual close has deleted the channel, the channel's id has
\* no entry in ticket_timers and no timer task of it is pending.
C19_NoTimerAfterClose ==
    \A c \in Channels :
        (\E i \in Closes(c) : procs[i].pc = "done")
        => /\ ticket_timers[c] = NoTask
           /\ \A k \in Timers(c) : procs[k].pc \notin LivePcs

\* C20: while a channel of the ticket category has no stored ticket
\* message, every timer task started for it has returned at once: it never
\* slept, read the history, posted a summary or issued a deletion, and
\* the channel is still there.
C20_NoMessageNoTimer ==
    \A c \in Channels :
        (chan[c] # "none" /\ ~ticket_messages[c])
        => /\ chan[c] = "open"
           /\ \A i \in Timers(c) :
                 /\ procs[i].pc = "returned" /\ procs[i].left = 0
                 /\ ~procs[i].read /\ ~procs[i].posted /\ procs[i].del = ""

\* Three messages were answered in a channel made by hand, each starting
\* a timer task, while the timer of a ticket ran out and deleted its channel.
C20_Witness ==
    \E c, d \in Channels :
        /\ chan[c] = "open" /\ ticket_types[c] = "" /\ Cardinality(Timers(c)) >= 3
        /\ Cardinality({i \in Ids : procs[i].kind = "msg" /\ procs[i].ch = c
                                   /\ procs[i].pc = "replied"}) >= 3
        /\ TimerDeleted(d)

====
